---- MODULE Spec2Model ----
(***************************************************************************)
(* Model of sherpa/bin/lstm_transducer_stateless/stream.py: the per-stream *)
(* state machine (class Stream) and the recurrent-state batch codec        *)
(* (stack_states / unstack_states).                                        *)
(*                                                                         *)
(* Two specifications are defined:                                         *)
(*   Spec       one Stream driven by its owner: audio ingestion, tail      *)
(*              padding, decoding steps and endpoint detection.            *)
(*   CodecSpec  stack_states / unstack_states applied to bounded inputs.   *)
(*                                                                         *)
(* and of sherpa/bin/pruned_stateless_emformer_rnnt2/streaming_client.py:  *)
(*   ClientSpec      main, run and receive_results of the streaming client *)
(*   ClientFairSpec  the same, where every enabled step is taken in time.  *)
(***************************************************************************)
EXTENDS Integers, Sequences, FiniteSets, TLC

VARIABLES
    \* ---- class Stream (stream.py:124-144) ----
    features,                   \* self.features: list of frames
    num_fetched_frames,         \* self.num_fetched_frames
    num_trailing_blank_frames,  \* self.num_trailing_blank_frames
    states,                     \* self.states (opaque recurrent state)
    processed_frames,           \* self.processed_frames
    context_size,               \* self.context_size
    subsampling_factor,         \* self.subsampling_factor
    segment,                    \* self.segment
    frame_offset,               \* self.frame_offset
    segment_frame_offset,       \* self.segment_frame_offset
    \* ---- self.feature_extractor (kaldifeat OnlineFbank) ----
    ext_num_samples,            \* samples accepted by the extractor so far
    ext_input_finished,         \* extractor.input_finished() has been called
    \* ---- control: where the owner of the stream is ----
    pc,                         \* "idle" or a position in _fetch_frames
    last_op,                    \* the method called last
    ret,                        \* its outcome: "pending", "None", "True", "False", "ConfigError"
    pad_total,                  \* history: sum of n over add_tail_paddings(n) calls
    num_detections,             \* history: endpoint_detected calls that returned True
    \* ---- batch codec (CodecSpec) ----
    c_phase,                    \* "list", "batch", "relist", "rebatch", "error"
    c_list,                     \* the list of per-stream states given to stack_states
    c_batch,                    \* stack_states(c_list)
    c_list2,                    \* unstack_states(c_batch)
    c_batch2,                   \* stack_states(c_list2)
    \* ---- streaming client (ClientSpec) ----
    cl_pc,                      \* main: "while", "run", "except", "sleep", "done", "raised"
    cl_count,                   \* main: count
    cl_exc,                     \* the exception that left run, or "none"
    cl_completed,               \* history: a call of run has returned
    cl_waves,                   \* test_wavs: the number of samples of each file
    cl_file,                    \* run: index of test_wav in test_wavs
    cl_rpc,                     \* run: position inside the for loop
    cl_conn,                    \* run: the websocket of the current file is open
    cl_start,                   \* run: start
    cl_sent,                    \* messages sent on the current websocket
    cl_recv,                    \* receive_task: "none", "running", "finished"
    cl_results                  \* history: decoding results received in this call of run

streamVars == <<features, num_fetched_frames, num_trailing_blank_frames, states,
                processed_frames, context_size, subsampling_factor, segment,
                frame_offset, segment_frame_offset>>
extVars == <<ext_num_samples, ext_input_finished>>
ctlVars == <<pc, last_op, ret, pad_total, num_detections>>
codecVars == <<c_phase, c_list, c_batch, c_list2, c_batch2>>
clientVars == <<cl_pc, cl_count, cl_exc, cl_completed, cl_waves, cl_file, cl_rpc,
                cl_conn, cl_start, cl_sent, cl_recv, cl_results>>
vars == <<streamVars, extVars, ctlVars, codecVars, clientVars>>

-----------------------------------------------------------------------------
(* Bounds of the model *)

MaxAudioFrames == 3      \* audio fed to one stream, in frame shifts
MaxPadFrames == 2        \* padding frames added to one stream
MaxDecodeSteps == 2      \* decoding steps taken by the caller on one stream
MaxBatch == 2            \* streams in one batch (codec)
MaxLayers == 2           \* LSTM layers of a state tensor (codec)
MaxDim == 2              \* width of a state tensor (codec)

-----------------------------------------------------------------------------
(* Program constants *)

samp_freq == 16000       \* opts.frame_opts.samp_freq
num_bins == 80           \* opts.mel_opts.num_bins
frame_shift_ms == 10     \* opts.frame_opts.frame_shift_ms (FbankOptions default)
frame_length_ms == 25    \* opts.frame_opts.frame_length_ms (FbankOptions default)

\* math.log(1e-10) = -23.025850929940457, in units of 2^-21
log_eps == -48288709

Abs(x) == IF x < 0 THEN -x ELSE x

\* Spacing of the float32 values around an integer of magnitude m: float32
\* keeps 24 significant bits.
RECURSIVE Float32Ulp(_)
Float32Ulp(m) == IF m < 16777216 THEN 1 ELSE 2 * Float32Ulp(m \div 2)

\* dtype=torch.float32: round to the nearest float32 value, ties to even.
Float32(x) ==
    LET m == Abs(x)
        u == Float32Ulp(m)
        q == m \div u
        r == m % u
        up == (2 * r > u) \/ (2 * r = u /\ q % 2 = 1)
        v == (IF up THEN q + 1 ELSE q) * u
    IN  IF x < 0 THEN -v ELSE v

-----------------------------------------------------------------------------
(* The streaming feature extractor, as the Stream sees it *)

frame_shift == (samp_freq * frame_shift_ms) \div 1000
frame_length == (samp_freq * frame_length_ms) \div 1000

SetMax(S) == CHOOSE x \in S : \A y \in S : y <= x

\* snip_edges = False: frame f is centred on sample frame_shift * f + frame_shift / 2
FirstSampleOfFrame(f) == frame_shift * f + frame_shift \div 2 - frame_length \div 2

\* Frames the extractor can compute from num_samples samples; after
\* input_finished (flush) the frames that overlap the end are computed too.
NumFrames(num_samples, flush) ==
    LET n0 == (num_samples + frame_shift \div 2) \div frame_shift
    IN  IF flush THEN n0
        ELSE SetMax({n \in 0..n0 :
                        n = 0 \/ FirstSampleOfFrame(n - 1) + frame_length <= num_samples})

\* feature_extractor.num_frames_ready
num_frames_ready == NumFrames(ext_num_samples, ext_input_finished)

\* feature_extractor.get_frame(i): a (1, num_bins) float32 tensor that
\* depends on the frame index (the fbank values themselves are opaque).
get_frame(i) == [b \in 1..num_bins |-> i * num_bins + b]

-----------------------------------------------------------------------------
(* Inputs *)

\* constructor arguments
ContextSizes == {2}
SubsamplingFactors == {1, 4}
\* opaque recurrent states of one stream
ModelStates == {"state0", "state1"}

\* sampling_rate and waveform length (in samples) given to accept_waveform
SamplingRates == {samp_freq, samp_freq \div 2}
WaveformLens == {0, frame_shift, frame_length}

\* sherpa.OnlineEndpointConfig: one rule of thresholds
Configs == [must_contain_nonsilence : BOOLEAN,
            min_trailing_silence_ms : {15, 45},
            min_utterance_length_ms : {15}]

-----------------------------------------------------------------------------
(* class Stream *)

\* Stream.__init__
StreamInit ==
    /\ features = <<>>
    /\ num_fetched_frames = 0
    /\ num_trailing_blank_frames = 0
    /\ states = "state0"
    /\ processed_frames = 0
    /\ context_size \in ContextSizes
    /\ subsampling_factor \in SubsamplingFactors
    /\ segment = 0
    /\ frame_offset = 0
    /\ segment_frame_offset = 0
    /\ ext_num_samples = 0
    /\ ext_input_finished = FALSE
    /\ pc = "idle"
    /\ last_op = "__init__"
    /\ ret = "None"
    /\ pad_total = 0
    /\ num_detections = 0

decodeVars == <<num_trailing_blank_frames, states, processed_frames, context_size,
                subsampling_factor, segment, frame_offset, segment_frame_offset>>

\* mutant: no sanity check of the declared rate
RateAccepted_any(sampling_rate) == TRUE

\* feature_extractor.accept_waveform raises when the declared rate is not the
\* configured one (stream.py:161-164)
RateAccepted(sampling_rate) == sampling_rate = samp_freq

\* Stream.accept_waveform, up to the call of _fetch_frames
accept_waveform(sampling_rate, n) ==
    /\ pc = "idle"
    /\ ext_num_samples + n <= MaxAudioFrames * frame_shift
    /\ last_op' = "accept_waveform"
    /\ IF RateAccepted(sampling_rate)
         THEN /\ ext_num_samples' = ext_num_samples + n
              /\ pc' = "fetch_test"
              /\ ret' = "pending"
         ELSE /\ ext_num_samples' = ext_num_samples
              /\ pc' = "idle"
              /\ ret' = "ConfigError"
    /\ UNCHANGED <<features, num_fetched_frames, decodeVars, ext_input_finished,
                   pad_total, num_detections, codecVars, clientVars>>

\* mutant: input_finished fetches every frame again
input_finished_refetch ==
    /\ pc = "idle"
    /\ ext_input_finished' = TRUE
    /\ num_fetched_frames' = 0
    /\ pc' = "fetch_test"
    /\ last_op' = "input_finished"
    /\ ret' = "pending"
    /\ UNCHANGED <<features, decodeVars, ext_num_samples,
                   pad_total, num_detections, codecVars, clientVars>>

\* Stream.input_finished, up to the call of _fetch_frames
input_finished ==
    /\ pc = "idle"
    /\ ext_input_finished' = TRUE
    /\ pc' = "fetch_test"
    /\ last_op' = "input_finished"
    /\ ret' = "pending"
    /\ UNCHANGED <<features, num_fetched_frames, decodeVars, ext_num_samples,
                   pad_total, num_detections, codecVars, clientVars>>

\* mutant: "<=" in the loop condition
FetchCond_le == num_fetched_frames <= num_frames_ready

\* the loop condition of _fetch_frames
FetchCond == num_fetched_frames < num_frames_ready

\* mutant: the frame index is the length of the feature buffer
FetchIndex_len == Len(features)

\* mutant: off by one in the frame index
FetchIndex_next == num_fetched_frames + 1

\* the index _fetch_frames asks the extractor for
FetchIndex == num_fetched_frames

\* mutant: self.features = [frame]
AppendFrame_assign(frame) == <<frame>>

\* self.features.append(frame)
AppendFrame(frame) == Append(features, frame)

\* Stream._fetch_frames: the loop test; the call returns when it fails
fetch_test ==
    /\ pc = "fetch_test"
    /\ IF FetchCond
         THEN pc' = "fetch_append" /\ ret' = ret
         ELSE pc' = "idle" /\ ret' = "None"
    /\ UNCHANGED <<streamVars, extVars, last_op, pad_total, num_detections,
                   codecVars, clientVars>>

\* Stream._fetch_frames: frame = get_frame(...); self.features.append(frame)
fetch_append ==
    /\ pc = "fetch_append"
    /\ features' = AppendFrame(get_frame(FetchIndex))
    /\ pc' = "fetch_incr"
    /\ UNCHANGED <<num_fetched_frames, decodeVars, extVars, last_op, ret,
                   pad_total, num_detections, codecVars, clientVars>>

\* Stream._fetch_frames: self.num_fetched_frames += 1, back to the loop test
fetch_incr ==
    /\ pc = "fetch_incr"
    /\ num_fetched_frames' = num_fetched_frames + 1
    /\ pc' = "fetch_test"
    /\ UNCHANGED <<features, decodeVars, extVars, last_op, ret,
                   pad_total, num_detections, codecVars, clientVars>>

\* torch.full((1, num_bins), fill_value=self.log_eps, dtype=torch.float32)
tail_padding == [b \in 1..num_bins |-> Float32(log_eps)]

\* [tail_padding] * n
Repeat(x, n) == [i \in 1..n |-> x]

\* mutant: self.features += [tail_padding]
PaddedFeatures_single(n) == Append(features, tail_padding)

\* self.features += [tail_padding] * n
PaddedFeatures(n) == features \o Repeat(tail_padding, n)

\* mutant: the padding frames are counted as trailing blanks
add_tail_paddings_blank(n) ==
    /\ pc = "idle"
    /\ pad_total + n <= MaxPadFrames
    /\ features' = PaddedFeatures(n)
    /\ pad_total' = pad_total + n
    /\ num_trailing_blank_frames' = num_trailing_blank_frames + n
    /\ last_op' = "add_tail_paddings"
    /\ ret' = "None"
    /\ UNCHANGED <<num_fetched_frames, states, processed_frames, context_size,
                   subsampling_factor, segment, frame_offset, segment_frame_offset,
                   extVars, pc, num_detections, codecVars, clientVars>>

\* Stream.add_tail_paddings
add_tail_paddings(n) ==
    /\ pc = "idle"
    /\ pad_total + n <= MaxPadFrames
    /\ features' = PaddedFeatures(n)
    /\ pad_total' = pad_total + n
    /\ last_op' = "add_tail_paddings"
    /\ ret' = "None"
    /\ UNCHANGED <<num_fetched_frames, decodeVars, extVars, pc, num_detections,
                   codecVars, clientVars>>

\* sherpa.endpoint_detected: a rule fires on enough trailing silence after a
\* long enough utterance
EndpointRule(config, num_frames_decoded, trailing_silence_frames, shift_ms) ==
    LET utterance_length == num_frames_decoded * shift_ms
        trailing_silence == trailing_silence_frames * shift_ms
        contains_nonsilence == utterance_length > trailing_silence
    IN  /\ contains_nonsilence \/ ~config.must_contain_nonsilence
        /\ trailing_silence > config.min_trailing_silence_ms
        /\ utterance_length > config.min_utterance_length_ms

\* mutant: the trailing blanks are not scaled by the subsampling factor
Detected_unscaled(config) ==
    EndpointRule(config, processed_frames, num_trailing_blank_frames, frame_shift_ms)

\* detected = sherpa.endpoint_detected(config, self.processed_frames,
\*     self.num_trailing_blank_frames * self.subsampling_factor, frame_shift)
Detected(config) ==
    EndpointRule(config, processed_frames,
                 num_trailing_blank_frames * subsampling_factor, frame_shift_ms)

\* mutant: segment_frame_offset is not reset
EndpointReset_no_segment_frame_offset ==
    /\ num_trailing_blank_frames' = 0
    /\ processed_frames' = 0
    /\ segment' = segment + 1
    /\ segment_frame_offset' = segment_frame_offset
    /\ frame_offset' = frame_offset

\* mutant: frame_offset is reset in place of segment_frame_offset
EndpointReset_frame_offset ==
    /\ num_trailing_blank_frames' = 0
    /\ processed_frames' = 0
    /\ segment' = segment + 1
    /\ segment_frame_offset' = segment_frame_offset
    /\ frame_offset' = 0

\* mutant: num_trailing_blank_frames is not reset
EndpointReset_keep_trailing ==
    /\ num_trailing_blank_frames' = num_trailing_blank_frames
    /\ processed_frames' = 0
    /\ segment' = segment + 1
    /\ segment_frame_offset' = 0
    /\ frame_offset' = frame_offset

\* mutant: segment is not incremented
EndpointReset_keep_segment ==
    /\ num_trailing_blank_frames' = 0
    /\ processed_frames' = 0
    /\ segment' = segment
    /\ segment_frame_offset' = 0
    /\ frame_offset' = frame_offset

\* the body of "if detected:"
EndpointReset ==
    /\ num_trailing_blank_frames' = 0
    /\ processed_frames' = 0
    /\ segment' = segment + 1
    /\ segment_frame_offset' = 0
    /\ frame_offset' = frame_offset

\* mutant: the trailing-blank reset is outside the "if detected:"
EndpointKeep_reset_trailing ==
    /\ num_trailing_blank_frames' = 0
    /\ UNCHANGED <<processed_frames, segment, segment_frame_offset, frame_offset>>

\* the path of endpoint_detected when detected is False
EndpointKeep ==
    UNCHANGED <<num_trailing_blank_frames, processed_frames, segment,
                segment_frame_offset, frame_offset>>

\* Stream.endpoint_detected
endpoint_detected(config) ==
    /\ pc = "idle"
    /\ IF Detected(config)
         THEN EndpointReset /\ ret' = "True"
              /\ num_detections' = num_detections + 1
         ELSE EndpointKeep /\ ret' = "False"
              /\ num_detections' = num_detections
    /\ last_op' = "endpoint_detected"
    /\ UNCHANGED <<features, num_fetched_frames, states, context_size,
                   subsampling_factor, extVars, pc, pad_total, codecVars, clientVars>>

\* One decoding step of the caller on this stream: subsampling_factor feature
\* frames become one encoder output frame. processed_frames counts frames
\* before subsampling, frame_offset and segment_frame_offset after it, and
\* num_trailing_blank_frames the blank outputs since the last non-blank one
\* (stream.py:128-144).  The frames the caller takes out of self.features
\* for the step are not modelled: the step leaves the feature buffer alone.
DecodeStep(blank, new_states) ==
    /\ pc = "idle"
    /\ frame_offset < MaxDecodeSteps
    /\ states' = new_states
    /\ processed_frames' = processed_frames + subsampling_factor
    /\ num_trailing_blank_frames' = IF blank THEN num_trailing_blank_frames + 1 ELSE 0
    /\ frame_offset' = frame_offset + 1
    /\ segment_frame_offset' = segment_frame_offset + 1
    /\ last_op' = "decode"
    /\ ret' = "None"
    /\ UNCHANGED <<features, num_fetched_frames, context_size, subsampling_factor,
                   segment, extVars, pc, pad_total, num_detections, codecVars, clientVars>>

CodecOff ==
    /\ c_phase = "off"
    /\ c_list = <<>>
    /\ c_batch = <<>>
    /\ c_list2 = <<>>
    /\ c_batch2 = <<>>

\* the client is not running
ClientOff ==
    /\ cl_pc = "off"
    /\ cl_count = 0
    /\ cl_exc = "none"
    /\ cl_completed = FALSE
    /\ cl_waves = <<>>
    /\ cl_file = 0
    /\ cl_rpc = "off"
    /\ cl_conn = FALSE
    /\ cl_start = 0
    /\ cl_sent = <<>>
    /\ cl_recv = "none"
    /\ cl_results = 0

Init == StreamInit /\ CodecOff /\ ClientOff

Next ==
    \/ \E r \in SamplingRates, n \in WaveformLens : accept_waveform(r, n)
    \/ input_finished
    \/ fetch_test
    \/ fetch_append
    \/ fetch_incr
    \/ \E n \in 0..MaxPadFrames : add_tail_paddings(n)
    \/ \E config \in Configs : endpoint_detected(config)
    \/ \E blank \in BOOLEAN, s \in ModelStates : DecodeStep(blank, s)

Spec == Init /\ [][Next]_vars

-----------------------------------------------------------------------------
(* The recurrent-state batch codec.  A tensor of shape (num_layers, N, dim)  *)
(* is a sequence over layers of sequences over the batch axis (dim=1) of     *)
(* sequences of values; a 2-D tensor is a sequence of sequences.             *)

Min(a, b) == IF a <= b THEN a ELSE b

\* mutant: the batch positions come out in reverse order
Unbind1_reversed(t) ==
    [n \in 1..Len(t[1]) |-> [l \in 1..Len(t) |-> t[l][Len(t[1]) + 1 - n]]]

\* t.unbind(dim=1): one (num_layers, dim) tensor per batch position
Unbind1(t) == [n \in 1..Len(t[1]) |-> [l \in 1..Len(t) |-> t[l][n]]]

\* x.unsqueeze(1): (num_layers, dim) -> (num_layers, 1, dim)
Unsqueeze1(x) == [l \in 1..Len(x) |-> <<x[l]>>]

\* zip(a, b) stops at the shorter of the two
Zip(a, b) == [i \in 1..Min(Len(a), Len(b)) |-> <<a[i], b[i]>>]

unstack_states(st) ==
    LET hidden_states == st[1]
        cell_states == st[2]
        list_hidden_states == Unbind1(hidden_states)
        list_cell_states == Unbind1(cell_states)
        pairs == Zip(list_hidden_states, list_cell_states)
    IN  [i \in 1..Len(pairs) |-> <<Unsqueeze1(pairs[i][1]), Unsqueeze1(pairs[i][2])>>]

\* sizes of a tensor outside the batch axis
NonBatchShape(t) == <<Len(t), [l \in 1..Len(t) |-> Len(t[l][1])]>>

\* mutant: only the number of layers is compared
CatCompatible_layers(ts) == \A i \in 1..Len(ts) : Len(ts[i]) = Len(ts[1])

\* torch.cat refuses tensors whose sizes differ outside the cat dimension
CatCompatible(ts) == \A i \in 1..Len(ts) : NonBatchShape(ts[i]) = NonBatchShape(ts[1])

RECURSIVE Concat(_)
Concat(ss) == IF ss = <<>> THEN <<>> ELSE Head(ss) \o Concat(Tail(ss))

\* mutant: the tensors are concatenated in reverse order
Cat1_reversed(ts) ==
    [l \in 1..Len(ts[1]) |-> Concat([i \in 1..Len(ts) |-> ts[Len(ts) + 1 - i][l]])]

\* torch.cat(ts, dim=1) on compatible tensors
Cat1(ts) == [l \in 1..Len(ts[1]) |-> Concat([i \in 1..Len(ts) |-> ts[i][l]])]

stack_states(states_list) ==
    LET hs == [i \in 1..Len(states_list) |-> states_list[i][1]]
        cs == [i \in 1..Len(states_list) |-> states_list[i][2]]
    IN  IF CatCompatible(hs) /\ CatCompatible(cs)
        THEN [err |-> "none", ans |-> <<Cat1(hs), Cat1(cs)>>]
        ELSE [err |-> "ShapeError", ans |-> <<>>]

\* inputs: single-stream states, each a (hidden, cell) pair with batch axis 1
NumLayers == 1..MaxLayers
Dims == 1..MaxDim
TensorSeeds == {0, 1}
MakeTensor(L, D, base) == [l \in 1..L |-> <<[d \in 1..D |-> base + 10 * l + d]>>]
SingleStates ==
    {<<MakeTensor(L, Dh, 100 * seed), MakeTensor(L, Dc, 100 * seed + 50)>> :
        L \in NumLayers, Dh \in Dims, Dc \in Dims, seed \in TensorSeeds}
StateLists == UNION {[1..N -> SingleStates] : N \in 1..MaxBatch}

CodecInit ==
    /\ StreamInit
    /\ ClientOff
    /\ c_phase = "list"
    /\ c_list \in StateLists
    /\ c_batch = <<>>
    /\ c_list2 = <<>>
    /\ c_batch2 = <<>>

\* the caller stacks the states of the streams of a batch
codec_stack ==
    /\ c_phase = "list"
    /\ LET r == stack_states(c_list)
       IN  /\ c_phase' = IF r.err = "none" THEN "batch" ELSE r.err
           /\ c_batch' = r.ans
    /\ UNCHANGED <<c_list, c_list2, c_batch2, streamVars, extVars, ctlVars,
                   clientVars>>

\* the caller splits the batched state again
codec_unstack ==
    /\ c_phase = "batch"
    /\ c_list2' = unstack_states(c_batch)
    /\ c_phase' = "relist"
    /\ UNCHANGED <<c_list, c_batch, c_batch2, streamVars, extVars, ctlVars,
                   clientVars>>

\* and stacks the per-stream states for the next batch
codec_restack ==
    /\ c_phase = "relist"
    /\ LET r == stack_states(c_list2)
       IN  /\ c_phase' = IF r.err = "none" THEN "rebatch" ELSE r.err
           /\ c_batch2' = r.ans
    /\ UNCHANGED <<c_list, c_batch, c_list2, streamVars, extVars, ctlVars,
                   clientVars>>

CodecNext == codec_stack \/ codec_unstack \/ codec_restack

CodecSpec == CodecInit /\ [][CodecNext]_vars

-----------------------------------------------------------------------------
(* streaming_client.py: main, run and receive_results *)

MaxFiles == 2            \* sound files on the command line
MaxChunks == 2           \* length of a sound file, in chunks of frame_size

max_retry_count == 5     \* main: max_retry_count
frame_size == 4096       \* run: frame_size

\* numbers of samples of a sound file
WaveLens == {0, 1, frame_size, frame_size + 1, MaxChunks * frame_size}
WaveLists == UNION {[1..N -> WaveLens] : N \in 1..MaxFiles}

\* what websockets.connect can do: connect, or raise InvalidStatusCode with
\* status 503 or another status, or raise another exception
ConnectOutcomes == {"ok", "status_503", "status_other", "error"}

otherVars == <<streamVars, extVars, ctlVars, codecVars>>

ClientInit ==
    /\ StreamInit
    /\ CodecOff
    /\ cl_pc = "while"
    /\ cl_count = 0
    /\ cl_exc = "none"
    /\ cl_completed = FALSE
    /\ cl_waves \in WaveLists
    /\ cl_file = 0
    /\ cl_rpc = "off"
    /\ cl_conn = FALSE
    /\ cl_start = 0
    /\ cl_sent = <<>>
    /\ cl_recv = "none"
    /\ cl_results = 0

\* mutant: "<=" in the retry loop condition
RetryCond_le == cl_count <= max_retry_count

\* main: while count < max_retry_count
RetryCond == cl_count < max_retry_count

\* main: the loop test; count += 1 and the call of run, or the end of main
main_while ==
    /\ cl_pc = "while"
    /\ IF RetryCond
         THEN /\ cl_count' = cl_count + 1
              /\ cl_pc' = "run"
              /\ cl_rpc' = "for"
              /\ cl_file' = 1
              /\ cl_results' = 0
         ELSE /\ cl_pc' = "done"
              /\ UNCHANGED <<cl_count, cl_rpc, cl_file, cl_results>>
    /\ UNCHANGED <<cl_exc, cl_completed, cl_waves, cl_conn, cl_start, cl_sent,
                   cl_recv, otherVars>>

\* an exception leaves run: "async with" closes the websocket on the way
Raise(exc) ==
    /\ cl_exc' = exc
    /\ cl_pc' = "except"
    /\ cl_rpc' = "off"
    /\ cl_conn' = FALSE

\* run: for test_wav in test_wavs; after the last file run returns and main
\* breaks out of its loop
run_for ==
    /\ cl_pc = "run" /\ cl_rpc = "for"
    /\ IF cl_file <= Len(cl_waves)
         THEN /\ cl_rpc' = "connect"
              /\ UNCHANGED <<cl_pc, cl_completed>>
         ELSE /\ cl_rpc' = "off"
              /\ cl_pc' = "done"
              /\ cl_completed' = TRUE
    /\ UNCHANGED <<cl_count, cl_exc, cl_waves, cl_file, cl_conn, cl_start, cl_sent,
                   cl_recv, cl_results, otherVars>>

\* run: async with websockets.connect(...) as websocket
run_connect(outcome) ==
    /\ cl_pc = "run" /\ cl_rpc = "connect"
    /\ IF outcome = "ok"
         THEN /\ cl_conn' = TRUE
              /\ cl_sent' = <<>>
              /\ cl_rpc' = "load"
              /\ UNCHANGED <<cl_pc, cl_exc>>
         ELSE /\ Raise(outcome)
              /\ UNCHANGED cl_sent
    /\ UNCHANGED <<cl_count, cl_completed, cl_waves, cl_file, cl_start, cl_recv,
                   cl_results, otherVars>>

\* run: torchaudio.load, assert sample_rate == 16000, create_task of
\* receive_results, start = 0
run_load(sample_rate) ==
    /\ cl_pc = "run" /\ cl_rpc = "load"
    /\ IF sample_rate = 16000
         THEN /\ cl_recv' = "running"
              /\ cl_start' = 0
              /\ cl_rpc' = "loop"
              /\ UNCHANGED <<cl_pc, cl_exc, cl_conn>>
         ELSE /\ Raise("error")
              /\ UNCHANGED <<cl_recv, cl_start>>
    /\ UNCHANGED <<cl_count, cl_completed, cl_waves, cl_file, cl_sent, cl_results,
                   otherVars>>

\* wave.numel()
Numel == cl_waves[cl_file]

\* run: while start < wave.numel()
run_loop ==
    /\ cl_pc = "run" /\ cl_rpc = "loop"
    /\ cl_rpc' = IF cl_start < Numel THEN "send" ELSE "send_done"
    /\ UNCHANGED <<cl_pc, cl_count, cl_exc, cl_completed, cl_waves, cl_file, cl_conn,
                   cl_start, cl_sent, cl_recv, cl_results, otherVars>>

\* end = start + min(frame_size, wave.numel() - start)
ChunkEnd == cl_start + Min(frame_size, Numel - cl_start)

\* run: d = wave[start:end]; await websocket.send(d); the send can fail
run_send(ok) ==
    /\ cl_pc = "run" /\ cl_rpc = "send"
    /\ IF ok
         THEN /\ cl_sent' = Append(cl_sent, [kind |-> "audio", start |-> cl_start,
                                             end |-> ChunkEnd])
              /\ cl_rpc' = "sleep"
              /\ UNCHANGED <<cl_pc, cl_exc, cl_conn>>
         ELSE /\ Raise("error")
              /\ UNCHANGED cl_sent
    /\ UNCHANGED <<cl_count, cl_completed, cl_waves, cl_file, cl_start, cl_recv,
                   cl_results, otherVars>>

\* mutant: consecutive chunks overlap by one sample
NextStart_overlap == cl_start + frame_size - 1

\* start += frame_size
NextStart == cl_start + frame_size

\* run: await asyncio.sleep(sleep_time); start += frame_size
run_sleep ==
    /\ cl_pc = "run" /\ cl_rpc = "sleep"
    /\ cl_start' = NextStart
    /\ cl_rpc' = "loop"
    /\ UNCHANGED <<cl_pc, cl_count, cl_exc, cl_completed, cl_waves, cl_file, cl_conn,
                   cl_sent, cl_recv, cl_results, otherVars>>

\* run: await websocket.send(b"Done"); the send can fail
run_send_done(ok) ==
    /\ cl_pc = "run" /\ cl_rpc = "send_done"
    /\ IF ok
         THEN /\ cl_sent' = Append(cl_sent, [kind |-> "done", start |-> 0, end |-> 0])
              /\ cl_rpc' = "await"
              /\ UNCHANGED <<cl_pc, cl_exc, cl_conn>>
         ELSE /\ Raise("error")
              /\ UNCHANGED cl_sent
    /\ UNCHANGED <<cl_count, cl_completed, cl_waves, cl_file, cl_start, cl_recv,
                   cl_results, otherVars>>

\* receive_results returns: the server sent "Done" or closed the connection
receive_results ==
    /\ cl_recv = "running"
    /\ cl_recv' = "finished"
    /\ UNCHANGED <<cl_pc, cl_count, cl_exc, cl_completed, cl_waves, cl_file, cl_rpc,
                   cl_conn, cl_start, cl_sent, cl_results, otherVars>>

\* run: decoding_results = await receive_task; the websocket is closed at the
\* end of "async with" and the for loop goes to the next file
run_await ==
    /\ cl_pc = "run" /\ cl_rpc = "await"
    /\ cl_recv = "finished"
    /\ cl_results' = cl_results + 1
    /\ cl_recv' = "none"
    /\ cl_conn' = FALSE
    /\ cl_file' = cl_file + 1
    /\ cl_rpc' = "for"
    /\ UNCHANGED <<cl_pc, cl_count, cl_exc, cl_completed, cl_waves, cl_start, cl_sent,
                   otherVars>>

\* main: the except clauses: only InvalidStatusCode with status 503 is
\* followed by a sleep and another turn of the loop
main_except ==
    /\ cl_pc = "except"
    /\ cl_pc' = IF cl_exc = "status_503" THEN "sleep" ELSE "raised"
    /\ UNCHANGED <<cl_count, cl_exc, cl_completed, cl_waves, cl_file, cl_rpc, cl_conn,
                   cl_start, cl_sent, cl_recv, cl_results, otherVars>>

\* main: await asyncio.sleep(2)
main_sleep ==
    /\ cl_pc = "sleep"
    /\ cl_pc' = "while"
    /\ UNCHANGED <<cl_count, cl_exc, cl_completed, cl_waves, cl_file, cl_rpc, cl_conn,
                   cl_start, cl_sent, cl_recv, cl_results, otherVars>>

ClientNext ==
    \/ main_while
    \/ run_for
    \/ \E outcome \in ConnectOutcomes : run_connect(outcome)
    \/ \E sample_rate \in SamplingRates : run_load(sample_rate)
    \/ run_loop
    \/ \E ok \in BOOLEAN : run_send(ok)
    \/ run_sleep
    \/ \E ok \in BOOLEAN : run_send_done(ok)
    \/ receive_results
    \/ run_await
    \/ main_except
    \/ main_sleep

ClientSpec == ClientInit /\ [][ClientNext]_vars

ClientFairSpec == ClientSpec /\ WF_vars(ClientNext)

-----------------------------------------------------------------------------
(* Properties *)

\* C1: over any sequence of accept_waveform and input_finished calls without
\* tail padding, num_fetched_frames never decreases from one state to the
\* next, and whenever a call has returned it equals len(features).
C1_FrameMonotonicity ==
    /\ [](pc = "idle" /\ pad_total = 0 => num_fetched_frames = Len(features))
    /\ [][num_fetched_frames' >= num_fetched_frames]_vars

\* C1 witness: input_finished has returned after several frames were fetched.
C1_Witness ==
    /\ pc = "idle" /\ last_op = "input_finished" /\ ret = "None"
    /\ pad_total = 0
    /\ num_fetched_frames >= 2
    /\ ext_num_samples > frame_length

\* C2: a call of endpoint_detected(config) in a state where the endpoint rule
\* is satisfied returns True and resets num_trailing_blank_frames,
\* processed_frames and segment_frame_offset to 0, adds exactly 1 to segment
\* and leaves frame_offset as it was.
C2_EndpointReset ==
    [][\A config \in Configs :
          (endpoint_detected(config) /\ Detected(config)) =>
              /\ ret' = "True"
              /\ num_trailing_blank_frames' = 0
              /\ processed_frames' = 0
              /\ segment_frame_offset' = 0
              /\ segment' = segment + 1
              /\ frame_offset' = frame_offset]_vars

\* C2 witness: a second endpoint has been detected in a stream that decoded
\* frames in both segments.
C2_Witness ==
    /\ last_op = "endpoint_detected" /\ ret = "True"
    /\ segment = 2
    /\ frame_offset >= 2
    /\ processed_frames = 0 /\ num_trailing_blank_frames = 0

\* C3: a call of endpoint_detected(config) in a state where the endpoint rule
\* is not satisfied returns False and changes no field of the stream.
C3_NonDetectionNoOp ==
    [][\A config \in Configs :
          (endpoint_detected(config) /\ ~Detected(config)) =>
              /\ ret' = "False"
              /\ UNCHANGED streamVars]_vars

\* C3 witness: endpoint_detected returned False on a stream with decoded
\* frames and trailing blanks.
C3_Witness ==
    /\ last_op = "endpoint_detected" /\ ret = "False"
    /\ processed_frames > 0
    /\ num_trailing_blank_frames > 0
    /\ Len(features) > 0

\* C4: stack_states and unstack_states are mutual inverses:
\* unstack_states(stack_states(L)) = L for every list L of single-stream
\* states of identical non-batch shape, and
\* stack_states(unstack_states(S)) = S for every batched state S.
C4_StackUnstackRoundTrip ==
    /\ c_phase \in {"relist", "rebatch"} => c_list2 = c_list
    /\ c_phase = "rebatch" => c_batch2 = c_batch

\* C4 witness: a batch of two different states went through
\* stack, unstack, stack.
C4_Witness ==
    /\ c_phase = "rebatch"
    /\ Len(c_list) = 2
    /\ c_list[1] # c_list[2]
    /\ Len(c_batch[1]) = 2

\* C5: accept_waveform with a declared sample rate other than the extractor's
\* 16000 Hz fails with ConfigError and leaves the feature buffer and
\* num_fetched_frames as they were.
C5_SampleRateMismatch ==
    [][\A r \in SamplingRates, n \in WaveformLens :
          (accept_waveform(r, n) /\ r # 16000) =>
              /\ ret' = "ConfigError"
              /\ pc' = "idle"
              /\ features' = features
              /\ num_fetched_frames' = num_fetched_frames]_vars

\* C5 witness: a call failed with ConfigError on a stream that holds frames.
C5_Witness ==
    /\ last_op = "accept_waveform" /\ ret = "ConfigError"
    /\ Len(features) > 0
    /\ ext_num_samples > 0

C7_FetchedAtMostReady == num_fetched_frames <= num_frames_ready

\* C7 witness: inside the loop, a frame is appended and the watermark is not
\* yet incremented, with one frame fetched before.
C7_Witness ==
    /\ pc = "fetch_incr"
    /\ num_fetched_frames >= 1
    /\ num_fetched_frames + 1 = num_frames_ready

\* C8: without tail padding the feature buffer always holds the extractor's
\* frames 0, 1, ... in index order, none skipped or duplicated, and once a
\* call has returned it holds every ready frame.
C8_FramesInOrder ==
    pad_total = 0 =>
        /\ features = [i \in 1..Len(features) |-> get_frame(i - 1)]
        /\ pc = "idle" => Len(features) = num_frames_ready

\* C8 witness: accept_waveform has returned with several frames ready.
C8_Witness ==
    /\ pc = "idle" /\ last_op = "accept_waveform" /\ ret = "None"
    /\ pad_total = 0
    /\ num_frames_ready >= 2
    /\ Len(features) >= 2

C10_TrailingWithinProcessed ==
    num_trailing_blank_frames * subsampling_factor
        <= processed_frames * subsampling_factor

\* C10 witness: after an endpoint reset, every step of the segment was blank.
C10_Witness ==
    /\ segment >= 1
    /\ num_trailing_blank_frames >= 1
    /\ num_trailing_blank_frames * subsampling_factor = processed_frames

\* C11: segment starts at 0, never decreases, always equals the number of
\* endpoint_detected calls that returned True, and changes only by +1 in a
\* call of endpoint_detected that returns True.
C11_SegmentCountsDetections ==
    /\ segment = 0
    /\ [](segment = num_detections)
    /\ [][/\ segment' >= segment
          /\ segment' # segment =>
                /\ segment' = segment + 1
                /\ last_op' = "endpoint_detected"
                /\ ret' = "True"]_vars

\* C11 witness: two endpoints were detected, with audio and padding
\* operations on the same stream.
C11_Witness ==
    /\ segment = 2
    /\ num_detections = 2
    /\ Len(features) > 0
    /\ pad_total > 0

\* C12: frame_offset never decreases, and no operation of Stream
\* (accept_waveform, input_finished, add_tail_paddings, endpoint_detected)
\* writes it: only the caller's decoding step changes it.
C12_FrameOffsetNeverReset ==
    [][/\ frame_offset' >= frame_offset
       /\ last_op' # "decode" => frame_offset' = frame_offset]_vars

\* C12 witness: frame_offset survived an endpoint reset.
C12_Witness ==
    /\ last_op = "endpoint_detected" /\ ret = "True"
    /\ frame_offset >= 2
    /\ segment_frame_offset = 0
    /\ ext_input_finished

\* C15: input_finished called on a stream that is already finished, with no
\* audio accepted since, changes neither the stream nor the extractor: the
\* call finds no frame to fetch and returns.
C15_SecondInputFinished ==
    [][/\ (input_finished /\ ext_input_finished) =>
             /\ UNCHANGED <<streamVars, extVars, pad_total, num_detections>>
             /\ num_fetched_frames' = num_frames_ready'
       /\ (fetch_test /\ num_fetched_frames = num_frames_ready) =>
             /\ UNCHANGED <<streamVars, extVars, pad_total, num_detections>>
             /\ pc' = "idle"]_vars

\* C15 witness: an input_finished call returned without appending anything
\* to a buffer that holds fetched frames and ends in padding; with audio in
\* the extractor a first input_finished always yields a frame, so this was a
\* later one.
C15_Witness ==
    /\ last_op = "input_finished" /\ pc = "idle" /\ ret = "None"
    /\ num_fetched_frames >= 2
    /\ pad_total >= 1
    /\ features[Len(features)] = tail_padding

\* C16: the result of endpoint_detected(config) is the endpoint rule on
\* num_frames_decoded = processed_frames, trailing_silence_frames =
\* num_trailing_blank_frames * subsampling_factor and the extractor's frame
\* shift, read before any reset.
C16_ResultIsRule ==
    [][\A config \in Configs :
          endpoint_detected(config) =>
              (ret' = "True" <=>
                  EndpointRule(config, processed_frames,
                               num_trailing_blank_frames * subsampling_factor, 10))
              /\ ret' \in {"True", "False"}]_vars

\* C16 witness: a detection that the rule grants only with the trailing
\* blanks scaled by a subsampling factor above 1.
C16_Witness ==
    /\ last_op = "endpoint_detected" /\ ret = "True"
    /\ subsampling_factor > 1
    /\ segment = 1
    /\ frame_offset = 1

\* C19: the feature buffer holds num_fetched_frames extractor frames plus
\* the padding frames added so far, and the extractor frames in it are
\* frames 0 .. num_fetched_frames - 1 in order: a fetch after padding pulls
\* frame number num_fetched_frames, not frame number len(features).
C19_PaddingNotCounted ==
    /\ pc \in {"idle", "fetch_test"} => Len(features) = num_fetched_frames + pad_total
    /\ pc = "idle" =>
          SelectSeq(features, LAMBDA f : f # tail_padding)
              = [i \in 1..num_fetched_frames |-> get_frame(i - 1)]

\* C19 witness: a frame was fetched after a padding frame was added.
C19_Witness ==
    /\ pc = "idle"
    /\ pad_total >= 1
    /\ Len(features) >= 3
    /\ features[Len(features)] # tail_padding
    /\ features[Len(features) - 1] = tail_padding

\* C20: accept_waveform, input_finished, add_tail_paddings and the fetch
\* loop leave states, num_trailing_blank_frames, processed_frames, segment,
\* frame_offset, segment_frame_offset, context_size and subsampling_factor
\* unchanged.
C20_IngestionFrame ==
    [][last_op' \in {"accept_waveform", "input_finished", "add_tail_paddings"} =>
          UNCHANGED <<states, num_trailing_blank_frames, processed_frames, segment,
                      frame_offset, segment_frame_offset, context_size,
                      subsampling_factor>>]_vars

\* C20 witness: padding was added in the middle of a segment with decoding
\* progress and trailing blanks.
C20_Witness ==
    /\ last_op = "add_tail_paddings"
    /\ pad_total >= 1
    /\ num_trailing_blank_frames >= 1
    /\ segment >= 1
    /\ states = "state1"

\* C13: batch order is kept in both directions: stack_states on N
\* single-stream states gives a state with batch axis N whose position i is
\* entry i of the list, and unstack_states on a state with batch axis N gives
\* exactly N states with batch axis 1 whose entry i is position i.
C13_BatchOrder ==
    /\ c_phase \in {"batch", "relist", "rebatch"} =>
          \A k \in 1..2 : \A l \in 1..Len(c_batch[k]) :
              /\ Len(c_batch[k][l]) = Len(c_list)
              /\ \A i \in 1..Len(c_list) : c_batch[k][l][i] = c_list[i][k][l][1]
    /\ c_phase \in {"relist", "rebatch"} =>
          /\ Len(c_list2) = Len(c_batch[1][1])
          /\ \A i \in 1..Len(c_list2) : \A k \in 1..2 :
                /\ Len(c_list2[i][k]) = Len(c_batch[k])
                /\ \A l \in 1..Len(c_batch[k]) :
                      /\ Len(c_list2[i][k][l]) = 1
                      /\ c_list2[i][k][l][1] = c_batch[k][l][i]

\* C13 witness: a batch of two different two-layer states was unstacked.
C13_Witness ==
    /\ c_phase = "relist"
    /\ Len(c_list2) = 2
    /\ Len(c_batch[1]) = 2
    /\ c_list2[1] # c_list2[2]

\* C14: stack_states on a list whose states differ in a non-batch dimension
\* (number of layers, hidden width or cell width) fails with ShapeError and
\* returns no batched state, it fails on no other list, and the list still
\* holds well-formed single-stream states.
C14_ShapeError ==
    LET SameShape(a, b) ==
            \A k \in 1..2 : /\ Len(a[k]) = Len(b[k])
                            /\ Len(a[k][1][1]) = Len(b[k][1][1])
        Mismatched == \E i \in 1..Len(c_list) : ~SameShape(c_list[i], c_list[1])
    IN  /\ c_phase # "list" => (c_phase = "ShapeError" <=> Mismatched)
        /\ c_phase = "ShapeError" => (c_batch = <<>> /\ c_list \in StateLists)

\* C14 witness: two states with the same hidden shape and different cell
\* widths were refused.
C14_Witness ==
    /\ c_phase = "ShapeError"
    /\ Len(c_list) = 2
    /\ Len(c_list[1][1]) = Len(c_list[2][1])
    /\ Len(c_list[1][1][1][1]) = Len(c_list[2][1][1][1])
    /\ Len(c_list[1][2][1][1]) # Len(c_list[2][2][1][1])

\* C17: within one connection the client sends the file as chunks of at most
\* 4096 samples that are contiguous, in increasing order and cover every
\* sample once; "Done" is sent once, after the last chunk; the receive task
\* is awaited only after "Done" was sent, and the connection of a file is
\* opened only when the result of every earlier file has arrived.
C17_ChunksThenDone ==
    /\ cl_conn =>
          \A i \in 1..Len(cl_sent) :
              IF cl_sent[i].kind = "audio"
              THEN /\ cl_sent[i].start = IF i = 1 THEN 0 ELSE cl_sent[i - 1].end
                   /\ i > 1 => cl_sent[i - 1].kind = "audio"
                   /\ cl_sent[i].end - cl_sent[i].start \in 1..4096
                   /\ cl_sent[i].end <= cl_waves[cl_file]
              ELSE /\ i = Len(cl_sent)
                   /\ cl_waves[cl_file] = IF i = 1 THEN 0 ELSE cl_sent[i - 1].end
    /\ cl_rpc = "await" =>
          /\ cl_conn
          /\ Len(cl_sent) >= 1
          /\ cl_sent[Len(cl_sent)].kind = "done"
    /\ (cl_conn /\ cl_rpc # "await") =>
          \A i \in 1..Len(cl_sent) : cl_sent[i].kind = "audio"
    /\ cl_rpc \in {"connect", "load"} => cl_recv # "running"
    /\ cl_pc = "run" /\ cl_rpc # "off" => cl_results = cl_file - 1

\* C17 witness: the second file, of more than one chunk, is sent and the
\* client waits for its result.
C17_Witness ==
    /\ cl_rpc = "await"
    /\ cl_file = 2
    /\ cl_results = 1
    /\ Len(cl_sent) = 3
    /\ cl_sent[2].end - cl_sent[2].start < 4096

\* C18: main calls run at most 5 times, another call follows only a call
\* that failed with InvalidStatusCode 503, no call follows one that
\* returned, any other exception leaves main at once, and main ends whenever
\* every attempt ends.
C18_BoundedRetry ==
    /\ [](cl_count <= 5)
    /\ [](cl_completed => cl_pc = "done")
    /\ [][cl_count' # cl_count =>
             /\ cl_count' = cl_count + 1
             /\ (cl_count = 0 \/ cl_exc = "status_503")
             /\ ~cl_completed]_vars
    /\ [][(cl_pc = "except" /\ cl_exc # "status_503") =>
             /\ cl_pc' = "except" \/ cl_pc' = "raised"
             /\ cl_count' = cl_count]_vars
    /\ [][(cl_pc = "done" \/ cl_pc = "raised") =>
             /\ cl_pc' = cl_pc
             /\ cl_count' = cl_count]_vars
    /\ <>(cl_pc \in {"done", "raised"})

\* C18 witness: the fifth call of run returned after four calls failed with
\* status 503.
C18_Witness ==
    /\ cl_count = 5
    /\ cl_completed
    /\ cl_pc = "done"
    /\ cl_exc = "status_503"

====
